---- MODULE Spec2Model ----
(***************************************************************************)
(* IBM Model 1 trainer (src/trainer.py): vocabulary extraction, uniform    *)
(* initialisation, the EM pass, the convergence loop and the summarizer.   *)
(*                                                                         *)
(* Numbers.  A Python float is modelled as a normalised fraction <<n, d>>  *)
(* with d > 0.  With prec = 0 every operation is exact; with prec = k > 0  *)
(* the result of every float operation of trainer.py is rounded to the     *)
(* nearest multiple of 2^-k (a binary fixed-point stand-in for the 53-bit  *)
(* rounding of IEEE doubles, narrow enough for TLC's 32-bit integers).     *)
(* A value whose exact fraction does not fit the integer range is Huge;    *)
(* the model does not follow a run beyond such a value.                    *)
(***************************************************************************)
EXTENDS Integers, Sequences, FiniteSets, TLC

VARIABLES corpus, epsilon, prec, pc, words, keysB,
          prevTranslationProbabilities, translationProbabilities,
          converged, iterations, result_table

vars == <<corpus, epsilon, prec, pc, words, keysB,
          prevTranslationProbabilities, translationProbabilities,
          converged, iterations, result_table>>

----------------------------------------------------------------------------
(* Bounds of the model *)

MaxPairs == 2
MaxIter == 2
GridBits == 13
MaxIterGrid == 100

\* The sentences of language A (already split into tokens), and two
\* alternatives for those of language B: one with words of its own, one
\* sharing the word "a" with language A.  Each has the empty sentence, a
\* single word and two distinct words; those of B also a repeated word.
SentencesA == {<<>>, <<"a">>, <<"a", "b">>}
SentenceSetsB == {{<<>>, <<"x">>, <<"x", "y">>, <<"y", "y">>},
                  {<<>>, <<"a">>, <<"a", "x">>, <<"x", "x">>}}

----------------------------------------------------------------------------
(* Arithmetic *)

Limit == 2^30 - 1

Abs(x) == IF x < 0 THEN -x ELSE x

RECURSIVE GCD(_, _)
GCD(a, b) == IF b = 0 THEN a ELSE GCD(b, a % b)

Zero == <<0, 1>>
One == <<1, 1>>
Huge == <<0, 0>>

IsHuge(q) == q[2] = 0
IsZero(q) == q[1] = 0 /\ q[2] # 0

\* |x * y| <= Limit, decided without forming the product
Fits(x, y) == y = 0 \/ Abs(x) <= Limit \div Abs(y)

Norm(n, d) == LET g == GCD(Abs(n), d) IN <<n \div g, d \div g>>

\* floor(r * 2^k / d) for 0 <= r < d, one binary digit at a time
RECURSIVE Shift(_, _, _)
Shift(r, d, k) ==
    IF k = 0 THEN 0
    ELSE ((2 * r) \div d) * 2^(k - 1) + Shift((2 * r) % d, d, k - 1)

\* the multiple of 2^-k nearest to q >= 0 (halves round up)
RoundGrid(q, k) ==
    LET x == (q[1] \div q[2]) * 2^(k + 1) + Shift(q[1] % q[2], q[2], k + 1)
    IN  Norm((x + 1) \div 2, 2^k)

\* the rounding of one float operation
Rnd(q) == IF prec = 0 \/ IsHuge(q) THEN q ELSE RoundGrid(q, prec)

\* exact sum
Plus(a, b) ==
    IF IsHuge(a) \/ IsHuge(b) THEN Huge
    ELSE LET g == GCD(a[2], b[2])
             p == a[2] \div g
             q == b[2] \div g
         IN  IF Fits(p, b[2]) /\ Fits(a[1], q) /\ Fits(b[1], p)
             THEN Norm(a[1] * q + b[1] * p, p * b[2])
             ELSE Huge

\* exact product
Times(a, b) ==
    IF IsHuge(a) \/ IsHuge(b) THEN Huge
    ELSE IF a[1] = 0 \/ b[1] = 0 THEN Zero
    ELSE LET g1 == GCD(Abs(a[1]), b[2])
             g2 == GCD(Abs(b[1]), a[2])
         IN  IF Fits(a[1] \div g1, b[1] \div g2) /\ Fits(a[2] \div g2, b[2] \div g1)
             THEN <<(a[1] \div g1) * (b[1] \div g2), (a[2] \div g2) * (b[2] \div g1)>>
             ELSE Huge

Minus(a, b) == Plus(a, <<-b[1], b[2]>>)

\* exact quotient of a >= 0 by b > 0
Over(a, b) ==
    IF IsHuge(a) \/ IsHuge(b) THEN Huge
    ELSE IF a[1] = 0 THEN Zero
    ELSE LET g1 == GCD(a[1], b[1])
             g2 == GCD(a[2], b[2])
         IN  IF Fits(a[1] \div g1, b[2] \div g2) /\ Fits(a[2] \div g2, b[1] \div g1)
             THEN <<(a[1] \div g1) * (b[2] \div g2), (a[2] \div g2) * (b[1] \div g1)>>
             ELSE Huge

\* a/b < c/d for a, c >= 0 and b, d > 0, by continued fractions (no products)
RECURSIVE LessFrac(_, _, _, _)
LessFrac(a, b, c, d) ==
    IF a \div b # c \div d THEN a \div b < c \div d
    ELSE IF c % d = 0 THEN FALSE
    ELSE IF a % b = 0 THEN TRUE
    ELSE LessFrac(d, c % d, b, a % b)

\* a < b for a, b >= 0
Less(a, b) == LessFrac(a[1], a[2], b[1], b[2])

\* Python float +, / as trainer.py uses them
Add(a, b) == Rnd(Plus(a, b))
Div(a, b) == Rnd(Over(a, b))

----------------------------------------------------------------------------
(* Dictionaries.  A Python dict is a function of its keys.  The order in    *)
(* which the row dicts list their keys is the order in which the process   *)
(* iterates the set words['B'] (lines 35, 48); it depends on the string    *)
(* hashing of the run.  Nothing reads it before the summarizer's items(),  *)
(* so the model draws it there, as keysB.                                  *)

Perms(S) == {s \in [1..Cardinality(S) -> S] : \A i, j \in 1..Cardinality(S) : s[i] = s[j] => i = j}

Tokens(sentences) == UNION {{s[i] : i \in 1..Len(s)} : s \in sentences}

----------------------------------------------------------------------------
(* trainer.py *)

\* pair[lang].split() is the token sequence stored in the corpus entry
getWords(c) ==
    [A |-> Tokens({c[i].A : i \in 1..Len(c)}),
     B |-> Tokens({c[i].B : i \in 1..Len(c)})]

initTranslationProbabilities(c) ==
    LET w == getWords(c)
    IN  [wordEn \in w.A |-> [wordFr \in w.B |-> Rnd(<<1, Cardinality(w.A)>>)]]

\* lines 77-78: totals[e] += translationProbabilities[e][f] for f in fs
RECURSIVE SumOver(_, _, _, _, _)
SumOver(totals, tp, e, fs, j) ==
    IF j > Len(fs) THEN totals
    ELSE SumOver([totals EXCEPT ![e] = Add(@, tp[e][fs[j]])], tp, e, fs, j + 1)

\* lines 74-78: for e in es: totals[e] = 0, then the sum over fs
RECURSIVE Normalizers(_, _, _, _, _)
Normalizers(totals, tp, es, fs, i) ==
    IF i > Len(es) THEN totals
    ELSE Normalizers(SumOver((es[i] :> Zero) @@ totals, tp, es[i], fs, 1),
                     tp, es, fs, i + 1)

\* Collect with every co-occurrence counted as one, whatever the table says
CollectUnweighted(st, tp, e, f) ==
    IF st.raised THEN st
    ELSE IF IsZero(st.totals[e]) THEN [st EXCEPT !.raised = TRUE]
    ELSE [st EXCEPT !.counts[e][f] = Add(@, One), !.totals[f] = Add(@, One)]

\* lines 82-84: one (e, f) of the cross product
Collect(st, tp, e, f) ==
    IF st.raised THEN st
    ELSE IF IsZero(st.totals[e]) THEN [st EXCEPT !.raised = TRUE]
    ELSE LET share == Div(tp[e][f], st.totals[e])
         IN  [st EXCEPT !.counts[e][f] = Add(@, share),
                        !.totals[f] = Add(@, share)]

\* lines 80-84: for e in es: for f in fs
RECURSIVE CrossProduct(_, _, _, _, _, _)
CrossProduct(st, tp, es, fs, i, j) ==
    IF i > Len(es) THEN st
    ELSE IF j > Len(fs) THEN CrossProduct(st, tp, es, fs, i + 1, 1)
    ELSE CrossProduct(Collect(st, tp, es[i], fs[j]), tp, es, fs, i, j + 1)

\* lines 72-84: for (es, fs) in the corpus
RECURSIVE Expectation(_, _, _, _)
Expectation(st, tp, c, n) ==
    IF n > Len(c) THEN st
    ELSE Expectation(
             CrossProduct([st EXCEPT !.totals = Normalizers(@, tp, c[n].A, c[n].B, 1)],
                          tp, c[n].A, c[n].B, 1, 1),
             tp, c, n + 1)

\* Maximization without the division by the source word's total
MaximizationRaw(counts, totals, e, f) == counts[e][f]

\* line 88
Maximization(counts, totals, e, f) == Div(counts[e][f], totals[f])

\* One EM pass.  The totals argument is rebound at line 70 before any use.
\* The result is [raised, value]: raised when a division by zero ends the pass.
trainIteration(c, w, totals, prev) ==
    LET st0 == [counts |-> [wordEn \in w.A |-> [wordFr \in w.B |-> Zero]],
                totals |-> [wordFr \in w.B |-> Zero],
                raised |-> FALSE]
        st == Expectation(st0, prev, c, 1)
    IN  IF st.raised \/ (w.A # {} /\ \E f \in w.B : IsZero(st.totals[f]))
        THEN [raised |-> TRUE, value |-> prev]
        ELSE [raised |-> FALSE,
              value |-> [e \in w.A |->
                  [f \in w.B |-> Maximization(st.counts, st.totals, e, f)]]]

\* tableDistance.distance: the Euclidean distance over all entries, held as
\* its square (the distance itself is the square root of this fraction)
RECURSIVE SumSquares(_, _, _)
SumSquares(p, q, cells) ==
    IF cells = {} THEN Zero
    ELSE LET c == CHOOSE x \in cells : TRUE
             d == Minus(p[c[1]][c[2]], q[c[1]][c[2]])
         IN  Plus(Times(d, d), SumSquares(p, q, cells \ {c}))

Cells(p) == {<<e, f>> : e \in DOMAIN p, f \in UNION {DOMAIN p[x] : x \in DOMAIN p}}

distance(p, q) == SumSquares(p, q, Cells(p))

\* isConverged with delta <= epsilon for the test
isConvergedLe(probabiltiesPrev, probabiltiesCurr, eps) ==
    LET delta2 == distance(probabiltiesPrev, probabiltiesCurr)
    IN  eps[1] >= 0 /\ ~Less(Times(eps, eps), delta2)

\* delta < epsilon, with delta >= 0 held as its square
isConverged(probabiltiesPrev, probabiltiesCurr, eps) ==
    LET delta2 == distance(probabiltiesPrev, probabiltiesCurr)
    IN  eps[1] > 0 /\ Less(delta2, Times(eps, eps))

\* Insert for a sort without reverse=True, smallest value first
RECURSIVE InsertAscending(_, _)
InsertAscending(sorted, item) ==
    IF sorted = <<>> THEN <<item>>
    ELSE IF Less(item[2], Head(sorted)[2]) THEN <<item>> \o sorted
    ELSE <<Head(sorted)>> \o InsertAscending(Tail(sorted), item)

\* sorted(items, key=itemgetter(1), reverse=True): a stable sort, so items
\* with equal values keep their order
RECURSIVE Insert(_, _)
Insert(sorted, item) ==
    IF sorted = <<>> THEN <<item>>
    ELSE IF Less(Head(sorted)[2], item[2]) THEN <<item>> \o sorted
    ELSE <<Head(sorted)>> \o Insert(Tail(sorted), item)

RECURSIVE SortedDesc(_, _)
SortedDesc(items, n) ==
    IF n = 0 THEN <<>> ELSE Insert(SortedDesc(items, n - 1), items[n])

\* v.items(): the row's items in the order the dict lists its keys
Items(v, keys) == [i \in 1..Len(keys) |-> <<keys[i], v[keys[i]]>>]

\* the summary for the key order keys
SummaryIn(tp, keys) ==
    IF tp # <<>> /\ keys = <<>>
    THEN [raised |-> TRUE, value |-> <<>>]
    ELSE [raised |-> FALSE,
          value |-> [k \in DOMAIN tp |->
                        SortedDesc(Items(tp[k], keys), Len(keys))[1][1]]]

\* [raised, value]: raised when a row is empty (IndexError on [0])
summarizeResults(tp) == SummaryIn(tp, keysB)

----------------------------------------------------------------------------
(* Inputs *)

SeqsUpTo(S, lo, hi) == UNION {[1..n -> S] : n \in lo..hi}

Corpora ==
    UNION {SeqsUpTo([A : SentencesA, B : S], 1, MaxPairs) : S \in SentenceSetsB}

\* main's default epsilon, 0.0001
DefaultEpsilon == <<1, 10000>>

Epsilons == {<<-1, 1>>, Zero, <<1, 100>>, <<1, 4>>}

\* Scenario B of the specification in every order of its pairs and tokens
Orders(s) == {t \in [1..Len(s) -> {s[i] : i \in 1..Len(s)}] :
                  \A i, j \in 1..Len(s) : t[i] = t[j] => i = j}

ScenarioB ==
    LET p1 == [A : Orders(<<"a", "b">>), B : Orders(<<"x", "y">>)]
        p2 == [A : Orders(<<"a", "c">>), B : Orders(<<"x", "z">>)]
    IN  {<<u, v>> : u \in p1, v \in p2} \cup {<<v, u>> : u \in p1, v \in p2}

----------------------------------------------------------------------------
(* The run of main: trainModel, then summarizeResults *)

Blank == <<>>

Init ==
    /\ corpus \in Corpora
    /\ epsilon \in Epsilons
    /\ prec = 0
    /\ pc = "main"
    /\ words = [A |-> {}, B |-> {}]
    /\ keysB = <<>>
    /\ prevTranslationProbabilities = Blank
    /\ translationProbabilities = Blank
    /\ converged = FALSE
    /\ iterations = 0
    /\ result_table = Blank

InitB ==
    /\ corpus \in ScenarioB
    /\ epsilon = DefaultEpsilon
    /\ prec = GridBits
    /\ pc = "main"
    /\ words = [A |-> {}, B |-> {}]
    /\ keysB = <<>>
    /\ prevTranslationProbabilities = Blank
    /\ translationProbabilities = Blank
    /\ converged = FALSE
    /\ iterations = 0
    /\ result_table = Blank

\* the corpora of Init without an empty sentence or a shared word, and
\* Scenario B, trained on the grid
InitR ==
    /\ corpus \in {c \in Corpora :
                     /\ \A i \in 1..Len(c) : c[i].A # <<>> /\ c[i].B # <<>>
                     /\ getWords(c).A \cap getWords(c).B = {}} \cup ScenarioB
    /\ epsilon = <<1, 100>>
    /\ prec = GridBits
    /\ pc = "main"
    /\ words = [A |-> {}, B |-> {}]
    /\ keysB = <<>>
    /\ prevTranslationProbabilities = Blank
    /\ translationProbabilities = Blank
    /\ converged = FALSE
    /\ iterations = 0
    /\ result_table = Blank

\* every number of the table fits the integer range
Representable(tp) ==
    \A e \in DOMAIN tp : \A f \in DOMAIN tp[e] : ~IsHuge(tp[e][f])

\* trainModel, lines 108-114: the vocabulary and the initial table
Setup ==
    /\ pc = "main"
    /\ UNCHANGED <<corpus, epsilon, prec, result_table>>
    /\ words' = getWords(corpus)
    /\ keysB' = <<>>
    /\ prevTranslationProbabilities' = initTranslationProbabilities(corpus)'
    /\ translationProbabilities' = Blank
    /\ converged' = FALSE
    /\ iterations' = 0
    /\ pc' = "loop"

\* the number of passes the model follows: few with exact fractions, whose
\* size grows with every pass, more on the grid
PassLimit == IF prec = 0 THEN MaxIter ELSE MaxIterGrid

\* trainModel, lines 115-124: one turn of the while loop
Iterate ==
    /\ pc = "loop"
    /\ ~converged
    /\ iterations < PassLimit
    /\ LET r == trainIteration(corpus, words, Blank, prevTranslationProbabilities)
       IN  IF r.raised
           THEN /\ pc' = "ZeroDivisionError"
                /\ UNCHANGED <<prevTranslationProbabilities, translationProbabilities,
                               converged, iterations>>
           ELSE /\ Representable(r.value)
                /\ ~IsHuge(distance(prevTranslationProbabilities, r.value))
                /\ translationProbabilities' = r.value
                /\ converged' = isConverged(prevTranslationProbabilities, r.value, epsilon)
                /\ prevTranslationProbabilities' = r.value
                /\ iterations' = iterations + 1
                /\ pc' = "loop"
    /\ UNCHANGED <<corpus, epsilon, prec, words, keysB, result_table>>

\* trainModel, line 126: the loop ends and the pair is returned to main
Return ==
    /\ pc = "loop"
    /\ converged
    /\ pc' = "trained"
    /\ UNCHANGED <<corpus, epsilon, prec, words, keysB, prevTranslationProbabilities,
                   translationProbabilities, converged, iterations, result_table>>

\* main, lines 169-174: the summary is computed and written
Summarize ==
    /\ pc = "trained"
    /\ UNCHANGED <<corpus, epsilon, prec, words, prevTranslationProbabilities,
                   translationProbabilities, converged, iterations>>
    /\ keysB' \in Perms(words.B)
    /\ LET r == summarizeResults(translationProbabilities)'
       IN  IF r.raised
           THEN pc' = "IndexError" /\ UNCHANGED result_table
           ELSE pc' = "done" /\ result_table' = r.value

Next == Setup \/ Iterate \/ Return \/ Summarize

Spec == Init /\ [][Next]_vars

SpecB == InitB /\ [][Next]_vars

SpecR == InitR /\ [][Next]_vars

----------------------------------------------------------------------------
(* Properties *)

Started == pc \in {"loop", "trained", "done", "IndexError"}

vocabulary == getWords(corpus)

AllNonEmpty(c) == \A i \in 1..Len(c) : c[i].A # <<>> /\ c[i].B # <<>>

\* the tables <<table 0, ..., table k>>: table 0 is the initial table, and each
\* pass takes the table of the pass before
RECURSIVE Tables(_)
Tables(k) ==
    IF k = 0 THEN <<initTranslationProbabilities(corpus)>>
    ELSE LET before == Tables(k - 1)
         IN  Append(before, trainIteration(corpus, vocabulary, Blank, before[k]).value)

TableAfter(k) == Tables(k)[k + 1]

RECURSIVE SumOf(_, _)
SumOf(f, S) ==
    IF S = {} THEN Zero
    ELSE LET x == CHOOSE y \in S : TRUE IN Plus(f[x], SumOf(f, S \ {x}))

RowSum(tp, e) == SumOf(tp[e], DOMAIN tp[e])
ColumnSum(tp, f) == SumOf([e \in DOMAIN tp |-> tp[e][f]], DOMAIN tp)

\* C1: with a non-empty source vocabulary B, the initial table has an entry
\* for every (e in A, f in B), every entry is 1/|B|, and every row sums to 1.
C1_InitUniform ==
    (pc = "loop" /\ iterations = 0 /\ words.B # {}) =>
        /\ DOMAIN prevTranslationProbabilities = words.A
        /\ \A e \in words.A :
              /\ DOMAIN prevTranslationProbabilities[e] = words.B
              /\ \A f \in words.B :
                    prevTranslationProbabilities[e][f] = <<1, Cardinality(words.B)>>
              /\ RowSum(prevTranslationProbabilities, e) = One

\* The update the claim C2 describes, from the previous table P
LocalTotal(P, e, fs) == SumOf([j \in 1..Len(fs) |-> P[e][fs[j]]], 1..Len(fs))

Occurrences ==
    UNION {{<<n, i, j>> : i \in 1..Len(corpus[n].A), j \in 1..Len(corpus[n].B)} :
               n \in 1..Len(corpus)}

ClaimedCounts(P, e, f) ==
    SumOf([t \in Occurrences |->
              IF corpus[t[1]].A[t[2]] = e /\ corpus[t[1]].B[t[3]] = f
              THEN Over(P[e][f], LocalTotal(P, e, corpus[t[1]].B))
              ELSE Zero],
          Occurrences)

ClaimedTotals(P, f) == SumOf([e \in DOMAIN P |-> ClaimedCounts(P, e, f)], DOMAIN P)

ClaimedUpdate(P) ==
    [e \in vocabulary.A |->
        [f \in vocabulary.B |-> Over(ClaimedCounts(P, e, f), ClaimedTotals(P, f))]]

\* C2: on a corpus of non-empty sentences, the first pass returns
\* P'[e][f] = Counts[e][f] / Totals[f], with Counts the sum of P[e][f] / total_e
\* over every occurrence of (e, f) and Totals[f] the sum of Counts[e][f] over e,
\* whether or not a word occurs in both languages.
C2_UpdateFormula ==
    (pc = "loop" /\ iterations = 1 /\ AllNonEmpty(corpus)) =>
        translationProbabilities = ClaimedUpdate(TableAfter(0))

\* delta < epsilon for the two tables, with the distance held as its square
Below(p, q) == epsilon[1] > 0 /\ Less(distance(p, q), Times(epsilon, epsilon))

\* C3: the count starts at 0 and is the number of completed passes; pass k takes
\* table k-1; the loop stops at the first pass whose distance is below epsilon,
\* every earlier pass having a distance of at least epsilon; no pass runs after
\* convergence, and what is returned is (table k, k).
C3_Loop ==
    Started =>
        LET table == Tables(iterations)
        IN  /\ iterations = 0 =>
                  ~converged /\ prevTranslationProbabilities = table[1]
            /\ iterations >= 1 =>
                  /\ translationProbabilities = table[iterations + 1]
                  /\ prevTranslationProbabilities = table[iterations + 1]
            /\ \A j \in 1..(iterations - 1) : ~Below(table[j], table[j + 1])
            /\ converged <=>
                  (iterations >= 1 /\ Below(table[iterations], table[iterations + 1]))
            /\ pc # "loop" => converged

C3_Witness == pc = "trained" /\ iterations = 2 /\ Len(corpus) = 2

Distinct(s) == \A i, j \in 1..Len(s) : s[i] = s[j] => i = j

\* C4: on a corpus of one pair whose sides hold the same number of distinct
\* tokens, each once, the first pass returns the initial table, and with any
\* epsilon > 0 the loop has converged after that one pass.
C4_SymmetricPair ==
    (/\ Len(corpus) = 1 /\ corpus[1].A # <<>>
     /\ Len(corpus[1].A) = Len(corpus[1].B)
     /\ Distinct(corpus[1].A) /\ Distinct(corpus[1].B)
     /\ pc # "main") =>
        /\ pc # "ZeroDivisionError"
        /\ iterations <= 1
        /\ iterations = 1 =>
              /\ translationProbabilities = TableAfter(0)
              /\ epsilon[1] > 0 => converged

\* C5: on Scenario B trained with the default epsilon, the table returned at
\* convergence has P[a][x] above P[a][y] and P[a][z], and the summary maps a to x.
C5_ScenarioB ==
    /\ pc \in {"trained", "done"} =>
          /\ Less(translationProbabilities["a"]["y"], translationProbabilities["a"]["x"])
          /\ Less(translationProbabilities["a"]["z"], translationProbabilities["a"]["x"])
    /\ pc = "done" => result_table["a"] = "x"
    /\ pc # "ZeroDivisionError" /\ pc # "IndexError"

C5_Witness ==
    pc = "done" /\ epsilon = DefaultEpsilon /\ iterations > 1 /\ result_table["a"] = "x"

\* C6: for a table whose rows are non-empty, the summary's keys are the table's
\* target words, and each is mapped to a source word of maximal probability in
\* its row.
C6_Argmax ==
    pc = "done" =>
        /\ DOMAIN result_table = DOMAIN translationProbabilities
        /\ \A e \in DOMAIN translationProbabilities :
              /\ result_table[e] \in DOMAIN translationProbabilities[e]
              /\ \A f \in DOMAIN translationProbabilities[e] :
                    ~Less(translationProbabilities[e][result_table[e]],
                          translationProbabilities[e][f])

C6_Witness ==
    /\ pc = "done"
    /\ \E e \in DOMAIN translationProbabilities :
          \E f \in DOMAIN translationProbabilities[e] :
              /\ f # result_table[e]
              /\ Less(translationProbabilities[e][f],
                      translationProbabilities[e][result_table[e]])

\* C7: the summary depends on the table's contents only: a run that lists the
\* vocabulary in another order returns the same source word for every target
\* word, also when two entries tie for the row maximum.
C7_OrderFree ==
    pc = "done" =>
        \A keys \in Perms(words.B) :
            SummaryIn(translationProbabilities, keys).value = result_table

HasEmpty(c) == \E i \in 1..Len(c) : c[i].A = <<>> \/ c[i].B = <<>>

\* C8: a corpus with an empty sentence on either side ends in CorpusFormatError:
\* never in a division by zero, and never with a table returned.
C8_EmptyRejected ==
    HasEmpty(corpus) => pc \notin {"ZeroDivisionError", "IndexError", "trained", "done"}

\* C9: with epsilon <= 0 training ends in ConfigError, no pass is run and no
\* model is returned.
C9_EpsilonRejected ==
    epsilon[1] <= 0 => (pc \in {"main", "ConfigError"} /\ iterations = 0)

InUnit(q) == q[2] > 0 /\ 0 <= q[1] /\ q[1] <= q[2]

\* the table has the keys A x B of the initial table, with entries in [0, 1]
KeysAndRange ==
    /\ DOMAIN translationProbabilities = words.A
    /\ DOMAIN translationProbabilities = DOMAIN TableAfter(0)
    /\ \A e \in words.A :
          /\ DOMAIN translationProbabilities[e] = words.B
          /\ DOMAIN translationProbabilities[e] = DOMAIN TableAfter(0)[e]
          /\ \A f \in words.B : InUnit(translationProbabilities[e][f])

Slack(n) == IF prec = 0 THEN Zero ELSE Norm(n, 2^(prec + 1))

\* |q - 1| <= Slack(n)
NearOne(q, n) ==
    LET d == Minus(q, One) IN ~Less(Slack(n), <<Abs(d[1]), d[2]>>)

====
